---- MODULE Spec2Model ----
(***************************************************************************)
(* Model of uart-buffered (src/uart-buffered/src/uart_buffered.h): the     *)
(* power-of-two ring buffer (struct fifo and the fifo_* inline functions)  *)
(* and the buffered UART channel built on two of them.                     *)
(*                                                                         *)
(* Integer representation.  write and read are u16_t and wrap modulo 2^16. *)
(* A size_t value is represented by the integer that is congruent to it    *)
(* modulo 2^N and lies in [-2^(N-1), 2^(N-1)) (N = width of size_t, 32 or  *)
(* 64): small values are themselves, SIZE_MAX is -1, and the conversion to *)
(* size_t of a negative int d is d.  Comparisons of two size_t values are  *)
(* the unsigned ones (SizeLT, SizeGE).  Every value the model computes is  *)
(* within (-2^17, 2^17), so the representation is exact for any N >= 18.   *)
(***************************************************************************)
EXTENDS Integers, Sequences, FiniteSets

(***************************************************************************)
(* Bounds of the model.                                                    *)
(***************************************************************************)
\* largest size handed to FIFO_DEFINE
MaxSize == 5
\* byte values pushed: 1..MaxByte (0 is the value of a never-written slot)
MaxByte == 2
\* total number of bytes pushed into the stand-alone ring buffer
MaxPush == 5
\* longest argument of write_nb / largest max_len of read_nb
MaxLen == 2
\* the counters start at 0 or PreWrap positions before the 16-bit wrap
PreWrap == 2
\* largest size of the two buffers of the channel
MaxChanSize == 4
\* total number of bytes the hardware receives
MaxRx == 3
\* total number of bytes handed to write / write_nb on the channel
MaxTx == 5
\* the fixed delay of the receive timeout, in ticks of the clock
RxDelay == 2

(***************************************************************************)
(* Program constants.                                                      *)
(***************************************************************************)
\* width of u16_t write / read
U16_BITS == 16

U16_MOD == 2 ^ U16_BITS

ByteVals == 1 .. MaxByte

(***************************************************************************)
(* Derived bounds and helpers.                                             *)
(***************************************************************************)
\* most bytes pending in, or accepted by, the hardware at one interrupt
MaxBurst == MaxChanSize

\* longest write / largest max_len of a read on the channel
MaxChanLen == MaxChanSize

Min(a, b) == IF a < b THEN a ELSE b

RECURSIVE SeqsUpTo(_)
\* all sequences over ByteVals of length at most n
SeqsUpTo(n) ==
  IF n = 0 THEN {<<>>}
  ELSE LET S == SeqsUpTo(n - 1)
       IN S \cup {Append(s, b) : s \in {t \in S : Len(t) = n - 1}, b \in ByteVals}

(***************************************************************************)
(* Integer helpers that follow the C semantics.                            *)
(***************************************************************************)
RECURSIVE BitAnd(_, _)
\* a & b for a >= 0 and b in two's complement (b = -1 is all ones)
BitAnd(a, b) ==
  IF a = 0 \/ b = 0 THEN 0
  ELSE (a % 2) * (b % 2) + 2 * BitAnd(a \div 2, b \div 2)

\* unsigned comparison of two size_t values (negative = upper half)
SizeLT(a, b) ==
  \/ a >= 0 /\ b >= 0 /\ a < b
  \/ a >= 0 /\ b < 0
  \/ a < 0 /\ b < 0 /\ a < b

SizeGE(a, b) == ~SizeLT(a, b)

\* u16_t x; x++ stores (x + 1) modulo 2^16
U16Inc(x) == (x + 1) % U16_MOD

(***************************************************************************)
(* FIFO_DEFINE / FIFO_CAPACITY / FIFO_INITIALIZER                          *)
(***************************************************************************)
\* BUILD_ASSERT_MSG(((size) & ((size)-1)) == 0, ...): TRUE = the build passes
FIFO_DEFINE(size) == BitAnd(size, size - 1) = 0

\* sizeof(name) - offsetof(struct fifo, buf)
FIFO_CAPACITY(size) == size

\* struct fifo with its handle's capacity_mask; counters at start, slots zero
FIFO_INITIALIZER(size, start) ==
  [write |-> start, read |-> start,
   buf |-> [i \in 0 .. size - 1 |-> 0],
   capacity_mask |-> FIFO_CAPACITY(size) - 1]

(***************************************************************************)
(* The ring buffer operations.                                             *)
(***************************************************************************)
fifo_capacity(f) == f.capacity_mask + 1

\* u16_t - u16_t is computed in int after integer promotion, then converted
\* to size_t: no reduction modulo 2^16 takes place
fifo_used(f) == f.write - f.read

\* mutant: used > capacity instead of used >= capacity
fifo_full_gt(f) == SizeLT(fifo_capacity(f), fifo_used(f))

fifo_full(f) == SizeGE(fifo_used(f), fifo_capacity(f))

\* mutant: a buffer holding one byte counts as empty
fifo_empty_le1(f) == fifo_used(f) = 0 \/ fifo_used(f) = 1

fifo_empty(f) == fifo_used(f) = 0

\* mutant: buf[++write & capacity_mask] = val
\* fifo_push that stores the byte and leaves the write counter where it was
fifo_push_noinc(f, val) ==
  [f EXCEPT !.buf[BitAnd(f.write, f.capacity_mask)] = val]

fifo_push_preinc(f, val) ==
  [f EXCEPT !.buf[BitAnd(U16Inc(f.write), f.capacity_mask)] = val,
            !.write = U16Inc(f.write)]

\* buf[write++ & capacity_mask] = val
fifo_push(f, val) ==
  [f EXCEPT !.buf[BitAnd(f.write, f.capacity_mask)] = val,
            !.write = U16Inc(f.write)]

\* fifo_peek that reads the slot after the oldest byte
fifo_peek_next(f) == f.buf[BitAnd(U16Inc(f.read), f.capacity_mask)]

\* buf[read & capacity_mask]
fifo_peek(f) == f.buf[BitAnd(f.read, f.capacity_mask)]

\* fifo_pop that returns the byte and leaves the read counter where it was
fifo_pop_noinc(f) ==
  [val |-> f.buf[BitAnd(f.read, f.capacity_mask)], fifo |-> f]

\* buf[read++ & capacity_mask]
fifo_pop(f) ==
  [val |-> f.buf[BitAnd(f.read, f.capacity_mask)],
   fifo |-> [f EXCEPT !.read = U16Inc(f.read)]]

(***************************************************************************)
(* Non-blocking API, run to completion on one buffer.                      *)
(***************************************************************************)
RECURSIVE write_nb_loop(_, _, _)
\* push bytes[i+1..] while the buffer is not full
write_nb_loop(f, bytes, i) ==
  IF i < Len(bytes) /\ ~fifo_full(f)
  THEN write_nb_loop(fifo_push(f, bytes[i + 1]), bytes, i + 1)
  ELSE [fifo |-> f, ret |-> i]

uart_buffered_write_nb(f, bytes) == write_nb_loop(f, bytes, 0)

RECURSIVE read_nb_loop(_, _, _)
\* pop into out while the buffer is not empty and out is shorter than len
read_nb_loop(f, len, out) ==
  IF Len(out) < len /\ ~fifo_empty(f)
  THEN read_nb_loop(fifo_pop(f).fifo, len, Append(out, fifo_pop(f).val))
  ELSE [fifo |-> f, out |-> out, ret |-> Len(out)]

uart_buffered_read_nb(f, len) == read_nb_loop(f, len, <<>>)

(***************************************************************************)
(* State.                                                                  *)
(***************************************************************************)
VARIABLES
  size,     \* the size given to FIFO_DEFINE
  built,    \* the build assertion of FIFO_DEFINE passed
  fifo,     \* the stand-alone ring buffer
  fault,    \* an __ASSERT of fifo_push / fifo_peek / fifo_pop has failed
  pushed,   \* history: every byte stored by fifo_push, in order
  popped,   \* history: every byte returned by fifo_pop, in order
  op,       \* the last call on the stand-alone buffer and what it returned
  chan,     \* struct uart_buffered: rx and tx, each a buffer with its signal
  hw,       \* the UART: transmit-ready interrupt enable, bytes sent on the line
  hist,     \* history of the channel: arrivals, drops, bytes pushed
  writer,   \* the thread calling write / write_nb
  reader    \* the thread calling read / read_nb

fifoVars == <<fifo, pushed, popped, op>>

chanVars == <<chan, hw, hist, writer, reader>>

vars == <<size, built, fifo, fault, pushed, popped, op,
          chan, hw, hist, writer, reader>>

NoOp == [kind |-> "none"]

\* number of bytes pushed and not yet popped
Held == Len(pushed) - Len(popped)

StartCounters == {0, U16_MOD - PreWrap}

\* struct uart_buffered as UART_BUFFERED_DEFINE builds it over two buffers
\* of the given size; signal = the signal is raised, timer = the ticks left
\* until the one timer of the channel expires (0 = the timer is stopped)
UART_BUFFERED_DEFINE(n, start) ==
  [rx |-> [fifo |-> FIFO_INITIALIZER(n, start), signal |-> FALSE,
           timer |-> 0],
   tx |-> [fifo |-> FIFO_INITIALIZER(n, start), signal |-> FALSE]]

NoChan == UART_BUFFERED_DEFINE(0, 0)

NoHw == [tx_irq |-> FALSE, out |-> <<>>]

\* since = ticks of the clock since the bridge last pushed a received byte,
\* rearmed = the timer that runs or ran last was restarted while running
NoHist == [arrived |-> 0, dropped |-> 0, rxPushed |-> <<>>, delivered |-> <<>>,
           given |-> 0, txPushed |-> <<>>, drained |-> FALSE, since |-> 0,
           rearmed |-> FALSE]

IdleThread == [pc |-> "idle", call |-> "none"]

(***************************************************************************)
(* Stand-alone ring buffer: construction and calls.                        *)
(***************************************************************************)
InitFifo ==
  /\ size \in 0 .. MaxSize
  /\ built = FIFO_DEFINE(size)
  /\ \E start \in StartCounters : fifo = FIFO_INITIALIZER(size, start)
  /\ fault = FALSE
  /\ pushed = <<>>
  /\ popped = <<>>
  /\ op = NoOp
  /\ chan = NoChan /\ hw = NoHw /\ hist = NoHist
  /\ writer = IdleThread /\ reader = IdleThread

\* fifo_push(val): the assertion stops the program on a full buffer
Push(val) ==
  /\ built /\ ~fault
  /\ Len(pushed) < MaxPush
  /\ IF fifo_full(fifo)
     THEN /\ fault' = TRUE
          /\ op' = [kind |-> "push", ok |-> FALSE, held |-> Held]
          /\ UNCHANGED <<fifo, pushed>>
     ELSE /\ fifo' = fifo_push(fifo, val)
          /\ pushed' = Append(pushed, val)
          /\ op' = [kind |-> "push", ok |-> TRUE, held |-> Held]
          /\ UNCHANGED fault
  /\ UNCHANGED <<size, built, popped, chanVars>>

\* fifo_pop(): the assertion stops the program on an empty buffer
Pop ==
  /\ built /\ ~fault
  /\ IF fifo_empty(fifo)
     THEN /\ fault' = TRUE
          /\ op' = [kind |-> "pop", ok |-> FALSE, held |-> Held]
          /\ UNCHANGED <<fifo, popped>>
     ELSE /\ fifo' = fifo_pop(fifo).fifo
          /\ popped' = Append(popped, fifo_pop(fifo).val)
          /\ op' = [kind |-> "pop", ok |-> TRUE, held |-> Held,
                    val |-> fifo_pop(fifo).val]
          /\ UNCHANGED fault
  /\ UNCHANGED <<size, built, pushed, chanVars>>

\* fifo_peek(): the assertion stops the program on an empty buffer
Peek ==
  /\ built /\ ~fault
  /\ IF fifo_empty(fifo)
     THEN /\ fault' = TRUE
          /\ op' = [kind |-> "peek", ok |-> FALSE, held |-> Held]
     ELSE /\ op' = [kind |-> "peek", ok |-> TRUE, held |-> Held,
                    val |-> fifo_peek(fifo)]
          /\ UNCHANGED fault
  /\ UNCHANGED <<size, built, fifo, pushed, popped, chanVars>>

\* uart_buffered_write_nb(bytes) on the stand-alone buffer
WriteNb(bytes) ==
  /\ built /\ ~fault
  /\ Len(pushed) + Len(bytes) <= MaxPush
  /\ LET r == uart_buffered_write_nb(fifo, bytes)
     IN /\ fifo' = r.fifo
        /\ pushed' = pushed \o SubSeq(bytes, 1, r.ret)
        /\ op' = [kind |-> "write_nb", arg |-> bytes, ret |-> r.ret,
                  held |-> Held, npushed |-> Len(pushed)]
  /\ UNCHANGED <<size, built, fault, popped, chanVars>>

\* uart_buffered_read_nb(len) on the stand-alone buffer
ReadNb(len) ==
  /\ built /\ ~fault
  /\ LET r == uart_buffered_read_nb(fifo, len)
     IN /\ fifo' = r.fifo
        /\ popped' = popped \o r.out
        /\ op' = [kind |-> "read_nb", arg |-> len, ret |-> r.ret,
                  out |-> r.out, held |-> Held, npopped |-> Len(popped)]
  /\ UNCHANGED <<size, built, fault, pushed, chanVars>>

NextFifo ==
  \/ \E val \in ByteVals : Push(val)
  \/ Pop
  \/ Peek
  \/ \E bytes \in SeqsUpTo(MaxLen) : WriteNb(bytes)
  \/ \E len \in 0 .. MaxLen : ReadNb(len)

SpecFifo == InitFifo /\ [][NextFifo]_vars

(***************************************************************************)
(* The buffered UART channel: Interrupt Bridge, Timeout Monitor and the    *)
(* two threads of the API.  The bytes are numbered: the k-th byte that     *)
(* arrives at the hardware, and the k-th byte handed to write / write_nb,  *)
(* has the value Tag(k); the code never looks at a byte's value.           *)
(***************************************************************************)
Tag(k) == ((k - 1) % MaxByte) + 1

Tags(from, n) == [j \in 1 .. n |-> Tag(from + j)]

\* bytes pushed into the buffer and not yet popped from it
RxHeld == Len(hist.rxPushed) - Len(hist.delivered)

TxHeld == Len(hist.txPushed) - Len(hw.out)

\* the two buffers of a channel have one size, at least 1
InitChan ==
  /\ size \in 1 .. MaxChanSize
  /\ FIFO_DEFINE(size)
  /\ built = TRUE
  /\ fault = FALSE
  /\ \E start \in StartCounters : chan = UART_BUFFERED_DEFINE(size, start)
  /\ hw = NoHw
  /\ hist = NoHist
  /\ writer = IdleThread
  /\ reader = IdleThread
  /\ fifo = FIFO_INITIALIZER(0, 0)
  /\ pushed = <<>>
  /\ popped = <<>>
  /\ op = NoOp

\* k_timer_start that leaves a running timer alone
k_timer_start_keep(t, delay) == IF t > 0 THEN t ELSE delay

\* k_timer_start(timer, delay, 0): the one-shot timer expires `delay` ticks
\* from now, whether it was stopped or running
k_timer_start(t, delay) == delay

RECURSIVE irq_rx_loop(_, _, _)
\* while the hardware has a byte pending and the receive buffer is not full:
\* read the byte from the hardware and push it
irq_rx_loop(f, pending, i) ==
  IF i < Len(pending) /\ ~fifo_full(f)
  THEN irq_rx_loop(fifo_push(f, pending[i + 1]), pending, i + 1)
  ELSE [fifo |-> f, n |-> i]

RECURSIVE irq_tx_loop(_, _, _)
\* while the hardware accepts a byte and the transmit buffer is not empty:
\* pop a byte and write it to the hardware
irq_tx_loop(f, room, sent) ==
  IF Len(sent) < room /\ ~fifo_empty(f)
  THEN irq_tx_loop(fifo_pop(f).fifo, room, Append(sent, fifo_pop(f).val))
  ELSE [fifo |-> f, sent |-> sent]

\* uart_buffered_irq: one invocation of the Interrupt Bridge, with n bytes
\* pending in the hardware and room for `room` bytes in its transmitter.
\* Bytes still pending when the receive buffer is full are lost.
uart_buffered_irq(n, room) ==
  /\ built /\ ~fault
  /\ n > 0 \/ (hw.tx_irq /\ room > 0)
  /\ hist.arrived + n <= MaxRx
  /\ LET r == irq_rx_loop(chan.rx.fifo, Tags(hist.arrived, n), 0)
         t == irq_tx_loop(chan.tx.fifo, room, <<>>)
     IN /\ chan' = [rx |-> [fifo |-> r.fifo,
                            signal |-> (chan.rx.signal \/ r.n > 0),
                            timer |-> IF r.n > 0
                                      THEN k_timer_start(chan.rx.timer, RxDelay)
                                      ELSE chan.rx.timer],
                    tx |-> [fifo |-> t.fifo,
                            signal |-> (chan.tx.signal \/ fifo_empty(t.fifo))]]
        /\ hw' = [tx_irq |-> (hw.tx_irq /\ ~fifo_empty(t.fifo)),
                  out |-> hw.out \o t.sent]
        /\ hist' = [hist EXCEPT
                      !.arrived = @ + n,
                      !.dropped = @ + (n - r.n),
                      !.rxPushed = @ \o SubSeq(Tags(hist.arrived, n), 1, r.n),
                      !.drained = @ \/ t.sent # <<>>,
                      !.since = IF r.n > 0 THEN 0 ELSE @,
                      !.rearmed = IF r.n > 0 THEN chan.rx.timer > 0 ELSE @]
  /\ UNCHANGED <<size, built, fault, fifoVars, writer, reader>>

\* a tick of the clock while the timer runs and is not about to expire
Tick ==
  /\ built /\ ~fault
  /\ chan.rx.timer > 1
  /\ chan' = [chan EXCEPT !.rx.timer = @ - 1]
  /\ hist' = [hist EXCEPT !.since = @ + 1]
  /\ UNCHANGED <<size, built, fault, fifoVars, hw, writer, reader>>

\* uart_buffered_rx_timeout: the last tick of the delay passes, the one-shot
\* timer expires and its callback raises the receive signal
uart_buffered_rx_timeout ==
  /\ built /\ ~fault
  /\ chan.rx.timer = 1
  /\ chan' = [chan EXCEPT !.rx.timer = 0, !.rx.signal = TRUE]
  /\ hist' = [hist EXCEPT !.since = @ + 1]
  /\ UNCHANGED <<size, built, fault, fifoVars, hw, writer, reader>>

(***************************************************************************)
(* Writer thread: uart_buffered_write_nb and uart_buffered_write.          *)
(***************************************************************************)
\* the thread calls write_nb (blocking = FALSE) or write with n bytes
WriteCall(n, blocking) ==
  /\ built /\ ~fault
  /\ writer.pc = "idle"
  /\ hist.given + n <= MaxTx
  /\ writer' = [pc |-> "wnb_test",
                call |-> IF blocking THEN "write" ELSE "write_nb",
                buf |-> Tags(hist.given, n), i |-> 0, held0 |-> TxHeld,
                w |-> 0]
  /\ hist' = [hist EXCEPT !.given = @ + n, !.drained = FALSE]
  /\ UNCHANGED <<size, built, fault, fifoVars, chan, hw, reader>>

\* write_nb: loop test, "more to push and not full"
WriteNbTest ==
  /\ ~fault
  /\ writer.pc = "wnb_test"
  /\ writer' = [writer EXCEPT
                  !.pc = IF writer.i < Len(writer.buf) /\ ~fifo_full(chan.tx.fifo)
                         THEN "wnb_push" ELSE "wnb_irq"]
  /\ UNCHANGED <<size, built, fault, fifoVars, chan, hw, hist, reader>>

\* write_nb: fifo_push of the next byte
WriteNbPush ==
  /\ ~fault
  /\ writer.pc = "wnb_push"
  /\ IF fifo_full(chan.tx.fifo)
     THEN /\ fault' = TRUE
          /\ UNCHANGED <<chan, hist, writer>>
     ELSE /\ chan' = [chan EXCEPT
                        !.tx.fifo = fifo_push(@, writer.buf[writer.i + 1])]
          /\ hist' = [hist EXCEPT
                        !.txPushed = Append(@, writer.buf[writer.i + 1])]
          /\ writer' = [writer EXCEPT !.i = @ + 1, !.pc = "wnb_test"]
          /\ UNCHANGED fault
  /\ UNCHANGED <<size, built, fifoVars, hw, reader>>

\* write_nb: enable the transmit-ready interrupt and return the count i;
\* write: return once every byte is pushed, else wait for the signal
WriteNbReturn ==
  /\ ~fault
  /\ writer.pc = "wnb_irq"
  /\ hw' = [hw EXCEPT !.tx_irq = TRUE]
  /\ writer' = [writer EXCEPT
                  !.pc = IF writer.call = "write" /\ writer.i < Len(writer.buf)
                         THEN "w_wait" ELSE "idle"]
  /\ UNCHANGED <<size, built, fault, fifoVars, chan, hist, reader>>

\* write: woken by the transmit signal, reset it and call write_nb again
WriteWake ==
  /\ ~fault
  /\ writer.pc = "w_wait"
  /\ chan.tx.signal
  /\ chan' = [chan EXCEPT !.tx.signal = FALSE]
  /\ writer' = [writer EXCEPT !.pc = "wnb_test"]
  /\ UNCHANGED <<size, built, fault, fifoVars, hw, hist, reader>>

(***************************************************************************)
(* Reader thread: uart_buffered_read_nb and uart_buffered_read.            *)
(***************************************************************************)
\* the thread calls read_nb (blocking = FALSE) or read with max_len = len
ReadCall(len, blocking) ==
  /\ built /\ ~fault
  /\ reader.pc = "idle"
  /\ reader' = [pc |-> IF blocking THEN "r_check" ELSE "rnb_test",
                call |-> IF blocking THEN "read" ELSE "read_nb",
                len |-> len, out |-> <<>>, wakes |-> 0]
  /\ UNCHANGED <<size, built, fault, fifoVars, chan, hw, hist, writer>>

\* read: suspend while the receive buffer is empty
ReadCheck ==
  /\ ~fault
  /\ reader.pc = "r_check"
  /\ reader' = [reader EXCEPT
                  !.pc = IF fifo_empty(chan.rx.fifo) THEN "r_wait" ELSE "rnb_test"]
  /\ UNCHANGED <<size, built, fault, fifoVars, chan, hw, hist, writer>>

\* read: woken by the receive signal, reset it and check the buffer again;
\* wakes counts the wakes of this call, up to two
ReadWake ==
  /\ ~fault
  /\ reader.pc = "r_wait"
  /\ chan.rx.signal
  /\ chan' = [chan EXCEPT !.rx.signal = FALSE]
  /\ reader' = [reader EXCEPT !.pc = "r_check", !.wakes = Min(@ + 1, 2)]
  /\ UNCHANGED <<size, built, fault, fifoVars, hw, hist, writer>>

\* read_nb: loop test "room in the caller's buffer and not empty", and the
\* return of the count Len(out) when it fails
ReadNbTest ==
  /\ ~fault
  /\ reader.pc = "rnb_test"
  /\ reader' = IF Len(reader.out) < reader.len /\ ~fifo_empty(chan.rx.fifo)
               THEN [reader EXCEPT !.pc = "rnb_pop"]
               ELSE [reader EXCEPT !.pc = "idle"]
  /\ UNCHANGED <<size, built, fault, fifoVars, chan, hw, hist, writer>>

\* read_nb: fifo_pop of the next byte
ReadNbPop ==
  /\ ~fault
  /\ reader.pc = "rnb_pop"
  /\ IF fifo_empty(chan.rx.fifo)
     THEN /\ fault' = TRUE
          /\ UNCHANGED <<chan, hist, reader>>
     ELSE /\ chan' = [chan EXCEPT !.rx.fifo = fifo_pop(@).fifo]
          /\ reader' = [reader EXCEPT
                          !.out = Append(@, fifo_pop(chan.rx.fifo).val),
                          !.pc = "rnb_test"]
          /\ hist' = [hist EXCEPT
                        !.delivered = Append(@, fifo_pop(chan.rx.fifo).val)]
          /\ UNCHANGED fault
  /\ UNCHANGED <<size, built, fifoVars, hw, writer>>

WriterRun == WriteNbTest \/ WriteNbPush \/ WriteNbReturn \/ WriteWake

ReaderRun == ReadCheck \/ ReadWake \/ ReadNbTest \/ ReadNbPop

\* The two sides of the channel share no state: the receive buffer, its
\* signal and the timer are touched by the bridge's receive part and the
\* reader only, the transmit buffer, its signal and the interrupt enable by
\* the bridge's transmit part and the writer only.  Each side is explored
\* with the whole handler and the other side's thread idle.

\* transmit side alone: no byte arrives and no thread reads
NextTx ==
  \/ \E room \in 1 .. MaxBurst : uart_buffered_irq(0, room)
  \/ \E n \in 0 .. MaxChanLen : WriteCall(n, FALSE)
  \/ \E n \in 1 .. MaxChanLen : WriteCall(n, TRUE)
  \/ WriterRun

SpecTx == InitChan /\ [][NextTx]_vars

\* an invocation of the bridge for the transmitter alone
TxReadyIrq == \E room \in 1 .. MaxBurst : uart_buffered_irq(0, room)

\* transmit side with the writer thread scheduled whenever it can run, and
\* the hardware ready to transmit again and again: the bridge is invoked
\* whenever the transmit-ready interrupt stays enabled
SpecTxLive ==
  /\ InitChan
  /\ [][NextTx]_vars
  /\ WF_vars(WriterRun)
  /\ WF_vars(TxReadyIrq)

\* receive side alone: no thread writes
NextRx ==
  \/ \E n \in 1 .. MaxBurst, room \in 0 .. MaxBurst : uart_buffered_irq(n, room)
  \/ Tick
  \/ uart_buffered_rx_timeout
  \/ \E len \in 0 .. MaxChanLen : ReadCall(len, FALSE)
  \/ \E len \in 1 .. MaxChanLen : ReadCall(len, TRUE)
  \/ ReaderRun

SpecRx == InitChan /\ [][NextRx]_vars

\* receive side with the reader thread scheduled whenever it can run, the
\* clock ticking and the timer expiring once started
SpecRxLive ==
  /\ InitChan
  /\ [][NextRx]_vars
  /\ WF_vars(ReaderRun)
  /\ WF_vars(Tick)
  /\ WF_vars(uart_buffered_rx_timeout)

\* both sides from one initial state: the transmit side while nothing has
\* arrived and no thread has read, or the receive side while no thread has
\* written (the bridge still runs its transmit part on the empty buffer)
NextSides ==
  \/ (reader.call = "none" /\ hist.arrived = 0 /\ NextTx)
  \/ (writer.call = "none" /\ NextRx)

SpecSides == InitChan /\ [][NextSides]_vars

(***************************************************************************)
(* Access grant.                                                           *)
(***************************************************************************)
\* the threads a grant can name
GrantThreads == {"t1", "t2"}

\* the result of uart_buffered_access_grant as a variant that returns an
\* error code would give it
access_grant_result_errno(accepted) == IF accepted THEN "0" ELSE "-EPERM"

\* what the caller of uart_buffered_access_grant gets back: the function is
\* declared void, whatever the platform did with the grant
access_grant_result(accepted) == "void"

\* uart_buffered_access_grant(uart, thread): the platform accepts or rejects
\* the grant; the call touches the thread's permissions only, never the
\* channel.  sent = the number of bytes the hardware had taken by then.
uart_buffered_access_grant(thread, accepted) ==
  /\ built /\ ~fault
  /\ op' = [kind |-> "access_grant", thread |-> thread, accepted |-> accepted,
            ret |-> access_grant_result(accepted), sent |-> Len(hw.out)]
  /\ UNCHANGED <<size, built, fifo, fault, pushed, popped, chanVars>>

\* a channel used from the privileged context through write_nb, with grants
\* requested at any moment
NextGrant ==
  \/ \E thread \in GrantThreads, accepted \in BOOLEAN :
       uart_buffered_access_grant(thread, accepted)
  \/ \E room \in 1 .. MaxBurst : uart_buffered_irq(0, room)
  \/ \E n \in 0 .. MaxChanLen : WriteCall(n, FALSE)
  \/ WriteNbTest
  \/ WriteNbPush
  \/ WriteNbReturn

SpecGrant == InitChan /\ [][NextGrant]_vars

(***************************************************************************)
(* One ring buffer shared by a thread and the interrupt context, with the  *)
(* memory accesses of the thread's fifo_push / fifo_pop as single steps.   *)
(* In buf[write++ & capacity_mask] = val the store of write and the store  *)
(* of the slot are unsequenced, and so are the store of read and the load  *)
(* of the slot in buf[read++ & capacity_mask]; the fields are not volatile *)
(* and there is no barrier, so a build may emit either order (gcc stores   *)
(* the index first).  op holds the build's order and the thread's role;    *)
(* the interrupt handler runs to completion between two thread steps.      *)
(***************************************************************************)
InitPreempt ==
  /\ size \in 1 .. MaxChanSize
  /\ FIFO_DEFINE(size)
  /\ built = TRUE
  /\ \E start \in StartCounters : fifo = FIFO_INITIALIZER(size, start)
  /\ fault = FALSE
  /\ pushed = <<>>
  /\ popped = <<>>
  /\ \E first \in BOOLEAN, role \in {"producer", "consumer"} :
       op = [kind |-> "build", index_first |-> first, thread |-> role]
  /\ chan = NoChan /\ hw = NoHw /\ hist = NoHist
  /\ writer = IdleThread /\ reader = IdleThread

\* the thread, as producer, has seen the buffer not full and calls fifo_push
ThreadPushCall(val) ==
  /\ op.thread = "producer" /\ writer.pc = "idle"
  /\ Len(pushed) < MaxPush
  /\ ~fifo_full(fifo)
  /\ writer' = [pc |-> "load", call |-> "push", val |-> val, w |-> 0]
  /\ pushed' = Append(pushed, val)
  /\ UNCHANGED <<size, built, fifo, fault, popped, op, chan, hw, hist, reader>>

\* fifo_push: load of write
ThreadPushLoad ==
  /\ writer.pc = "load"
  /\ writer' = [writer EXCEPT !.w = fifo.write,
                              !.pc = IF op.index_first THEN "index" ELSE "slot"]
  /\ UNCHANGED <<size, built, fifo, fault, pushed, popped, op, chan, hw, hist,
                 reader>>

\* fifo_push: store of the byte in buf[write & capacity_mask]
ThreadPushSlot ==
  /\ writer.pc = "slot"
  /\ fifo' = [fifo EXCEPT
                !.buf[BitAnd(writer.w, fifo.capacity_mask)] = writer.val]
  /\ writer' = [writer EXCEPT
                  !.pc = IF op.index_first THEN "idle" ELSE "index"]
  /\ UNCHANGED <<size, built, fault, pushed, popped, op, chan, hw, hist, reader>>

\* fifo_push: store of write + 1
ThreadPushIndex ==
  /\ writer.pc = "index"
  /\ fifo' = [fifo EXCEPT !.write = U16Inc(writer.w)]
  /\ writer' = [writer EXCEPT
                  !.pc = IF op.index_first THEN "slot" ELSE "idle"]
  /\ UNCHANGED <<size, built, fault, pushed, popped, op, chan, hw, hist, reader>>

\* the bridge, as consumer, finds the buffer not empty and pops a byte
IsrPop ==
  /\ op.kind = "build" /\ op.thread = "producer"
  /\ ~fifo_empty(fifo)
  /\ fifo' = fifo_pop(fifo).fifo
  /\ popped' = Append(popped, fifo_pop(fifo).val)
  /\ UNCHANGED <<size, built, fault, pushed, op, chanVars>>

\* the thread, as consumer, has seen the buffer not empty and calls fifo_pop
ThreadPopCall ==
  /\ op.thread = "consumer" /\ reader.pc = "idle"
  /\ ~fifo_empty(fifo)
  /\ reader' = [pc |-> "load", call |-> "pop", r |-> 0]
  /\ UNCHANGED <<size, built, fifo, fault, pushed, popped, op, chan, hw, hist,
                 writer>>

\* fifo_pop: load of read
ThreadPopLoad ==
  /\ reader.pc = "load"
  /\ reader' = [reader EXCEPT !.r = fifo.read,
                              !.pc = IF op.index_first THEN "index" ELSE "slot"]
  /\ UNCHANGED <<size, built, fifo, fault, pushed, popped, op, chan, hw, hist,
                 writer>>

\* fifo_pop: load of the byte in buf[read & capacity_mask], the value that
\* fifo_pop returns
ThreadPopSlot ==
  /\ reader.pc = "slot"
  /\ popped' = Append(popped, fifo.buf[BitAnd(reader.r, fifo.capacity_mask)])
  /\ reader' = [reader EXCEPT
                  !.pc = IF op.index_first THEN "idle" ELSE "index"]
  /\ UNCHANGED <<size, built, fifo, fault, pushed, op, chan, hw, hist, writer>>

\* fifo_pop: store of read + 1
ThreadPopIndex ==
  /\ reader.pc = "index"
  /\ fifo' = [fifo EXCEPT !.read = U16Inc(reader.r)]
  /\ reader' = [reader EXCEPT
                  !.pc = IF op.index_first THEN "slot" ELSE "idle"]
  /\ UNCHANGED <<size, built, fault, pushed, popped, op, chan, hw, hist, writer>>

\* the bridge, as producer, finds the buffer not full and pushes a byte
IsrPush(val) ==
  /\ op.kind = "build" /\ op.thread = "consumer"
  /\ Len(pushed) < MaxPush
  /\ ~fifo_full(fifo)
  /\ fifo' = fifo_push(fifo, val)
  /\ pushed' = Append(pushed, val)
  /\ UNCHANGED <<size, built, fault, popped, op, chanVars>>

NextPreempt ==
  \/ \E val \in ByteVals : ThreadPushCall(val)
  \/ ThreadPushLoad
  \/ ThreadPushSlot
  \/ ThreadPushIndex
  \/ IsrPop
  \/ ThreadPopCall
  \/ ThreadPopLoad
  \/ ThreadPopSlot
  \/ ThreadPopIndex
  \/ \E val \in ByteVals : IsrPush(val)

SpecPreempt == InitPreempt /\ [][NextPreempt]_vars

(***************************************************************************)
(* The transmit side with the memory accesses of the writer's fifo_push as *)
(* single steps, in the order the build chose (op.index_first), and the    *)
(* bridge free to run between any two of them.                             *)
(***************************************************************************)
InitTxBuild ==
  /\ size \in 1 .. MaxChanSize
  /\ FIFO_DEFINE(size)
  /\ built = TRUE
  /\ fault = FALSE
  /\ \E start \in StartCounters : chan = UART_BUFFERED_DEFINE(size, start)
  /\ hw = NoHw
  /\ hist = NoHist
  /\ writer = IdleThread
  /\ reader = IdleThread
  /\ fifo = FIFO_INITIALIZER(0, 0)
  /\ pushed = <<>>
  /\ popped = <<>>
  /\ \E first \in BOOLEAN :
       op = [kind |-> "build", index_first |-> first, thread |-> "producer"]

\* the pc of the writer after the second of the two stores of a fifo_push
PushDone == [writer EXCEPT !.i = @ + 1, !.pc = "wnb_test"]

\* write_nb, fifo_push: the assertion and the load of write
WriteNbPushLoad ==
  /\ ~fault
  /\ writer.pc = "wnb_push"
  /\ IF fifo_full(chan.tx.fifo)
     THEN /\ fault' = TRUE
          /\ UNCHANGED writer
     ELSE /\ writer' = [writer EXCEPT
                          !.w = chan.tx.fifo.write,
                          !.pc = IF op.index_first THEN "wnb_index"
                                                   ELSE "wnb_slot"]
          /\ UNCHANGED fault
  /\ UNCHANGED <<size, built, fifoVars, chan, hw, hist, reader>>

\* write_nb, fifo_push: store of the byte in buf[write & capacity_mask]
WriteNbPushSlot ==
  /\ ~fault
  /\ writer.pc = "wnb_slot"
  /\ chan' = [chan EXCEPT
                !.tx.fifo.buf[BitAnd(writer.w, chan.tx.fifo.capacity_mask)] =
                  writer.buf[writer.i + 1]]
  /\ writer' = IF op.index_first THEN PushDone
                                  ELSE [writer EXCEPT !.pc = "wnb_index"]
  /\ UNCHANGED <<size, built, fault, fifoVars, hw, hist, reader>>

\* write_nb, fifo_push: store of write + 1; from here on the byte counts as
\* pushed
WriteNbPushIndex ==
  /\ ~fault
  /\ writer.pc = "wnb_index"
  /\ chan' = [chan EXCEPT !.tx.fifo.write = U16Inc(writer.w)]
  /\ hist' = [hist EXCEPT !.txPushed = Append(@, writer.buf[writer.i + 1])]
  /\ writer' = IF op.index_first THEN [writer EXCEPT !.pc = "wnb_slot"]
                                  ELSE PushDone
  /\ UNCHANGED <<size, built, fault, fifoVars, hw, reader>>

WriterBuildRun ==
  \/ WriteNbTest
  \/ WriteNbPushLoad
  \/ WriteNbPushSlot
  \/ WriteNbPushIndex
  \/ WriteNbReturn
  \/ WriteWake

NextTxBuild ==
  \/ TxReadyIrq
  \/ \E n \in 0 .. MaxChanLen : WriteCall(n, FALSE)
  \/ \E n \in 1 .. MaxChanLen : WriteCall(n, TRUE)
  \/ WriterBuildRun

\* the writer thread scheduled whenever it can run, and the bridge invoked
\* whenever the transmit-ready interrupt stays enabled
SpecTxBuild ==
  /\ InitTxBuild
  /\ [][NextTxBuild]_vars
  /\ WF_vars(WriterBuildRun)
  /\ WF_vars(TxReadyIrq)

(***************************************************************************)
(* Properties of the stand-alone ring buffer (SpecFifo).                   *)
(***************************************************************************)
\* the value of a size_t lies in [0, c] for a small non-negative c
SizeWithin(u, c) == SizeGE(u, 0) /\ ~SizeLT(c, u)

IsPrefix(s, t) == Len(s) <= Len(t) /\ s = SubSeq(t, 1, Len(s))

IsPowerOfTwo(n) == \E k \in 0 .. n : 2 ^ k = n

\* write - read reduced modulo 2^16
UsedMod16 == (fifo.write - fifo.read) % U16_MOD

\* slot index of the i-th unread byte (i = 1 is the oldest)
UnreadSlot(i) == BitAnd((fifo.read + i - 1) % U16_MOD, fifo.capacity_mask)

\* the unread bytes are in their slots, oldest first
UnreadIntact ==
  \A i \in 1 .. Held : fifo.buf[UnreadSlot(i)] = pushed[Len(popped) + i]

\* C1: under pushes made while not full and pops made while not empty,
\* fifo_used stays within [0, capacity] and the n-th byte popped is the n-th
\* byte pushed.
C1_UsedBoundedFifoOrder ==
  (built /\ ~fault) =>
    /\ SizeWithin(fifo_used(fifo), fifo_capacity(fifo))
    /\ IsPrefix(popped, pushed)

\* C2: fifo_used is write - read modulo 2^16, within [0, capacity] also when
\* write has wrapped and read has not, and fifo_full / fifo_empty answer as
\* they would for unwrapped counters.
C2_UsedIsModular ==
  built =>
    /\ fifo_used(fifo) = UsedMod16
    /\ SizeWithin(fifo_used(fifo), fifo_capacity(fifo))
    /\ fifo_full(fifo) = (UsedMod16 >= size)
    /\ fifo_empty(fifo) = (UsedMod16 = 0)

\* C3: fifo_full and fifo_empty are never both true, both are false exactly
\* when 0 < used < capacity, full only when used = capacity, empty only when
\* used = 0.
C3_FullEmptyExclusive ==
  built =>
    LET u == fifo_used(fifo)
        c == fifo_capacity(fifo)
    IN /\ ~(fifo_full(fifo) /\ fifo_empty(fifo))
       /\ (~fifo_full(fifo) /\ ~fifo_empty(fifo)) <=> (SizeLT(0, u) /\ SizeLT(u, c))
       /\ fifo_full(fifo) => u = c
       /\ fifo_empty(fifo) => u = 0

\* C4: from an empty buffer of accepted capacity C, with pushes only, the
\* first C pushes succeed, then fifo_full holds, and the next push is
\* rejected with every unread byte still in place.
C4_CapacityBoundary ==
  (built /\ popped = <<>>) =>
    /\ Len(pushed) < size => ~fifo_full(fifo)
    /\ Len(pushed) = size => fifo_full(fifo)
    /\ (op.kind = "push" /\ ~op.ok) => (Len(pushed) = size /\ UnreadIntact)

\* C5: FIFO_DEFINE accepts a size if and only if it is a power of two.
C5_AcceptsIffPowerOfTwo == built <=> IsPowerOfTwo(size)

\* C6: write_nb returns min(len, capacity - u), enqueues that prefix of its
\* input and raises the number of held bytes by that count; read_nb returns
\* min(max_len, u), delivers the oldest bytes in order and lowers the number
\* of held bytes by that count.
C6_NonBlockingCounts ==
  /\ op.kind = "write_nb" =>
       /\ op.ret = Min(Len(op.arg), size - op.held)
       /\ SubSeq(pushed, op.npushed + 1, Len(pushed)) = SubSeq(op.arg, 1, op.ret)
       /\ Held = op.held + op.ret
  /\ op.kind = "read_nb" =>
       /\ op.ret = Min(op.arg, op.held)
       /\ op.out = SubSeq(pushed, op.npopped + 1, op.npopped + op.ret)
       /\ Held = op.held - op.ret

\* C7: round trip.  When a read_nb asked for at least one byte returns 0,
\* the bytes delivered so far are exactly the bytes written so far, in the
\* same order, and the buffer is empty.
C7_RoundTrip ==
  (op.kind = "read_nb" /\ op.arg > 0 /\ op.ret = 0) =>
    /\ popped = pushed
    /\ fifo_empty(fifo)
    /\ fifo.write = fifo.read

\* a round trip of three bytes that crossed the 16-bit wrap of both counters
C7_Witness ==
  /\ op.kind = "read_nb" /\ op.arg > 0 /\ op.ret = 0
  /\ Len(pushed) >= 3 /\ popped = pushed
  /\ fifo.read = Len(pushed) - PreWrap

(***************************************************************************)
(* Properties of the channel.                                              *)
(***************************************************************************)
LastN(s, n) == SubSeq(s, Len(s) - n + 1, Len(s))

\* slot of the j-th unread byte of buffer f (j = 1 is the oldest)
Slot(f, j) == BitAnd((f.read + j - 1) % U16_MOD, f.capacity_mask)

\* the bytes pushed into the transmit buffer and not yet popped are in their
\* slots, oldest first, and the bytes sent are the first ones pushed
TxUnreadIntact ==
  /\ IsPrefix(hw.out, hist.txPushed)
  /\ \A j \in 1 .. TxHeld :
       chan.tx.fifo.buf[Slot(chan.tx.fifo, j)] = hist.txPushed[Len(hw.out) + j]

RxUnreadIntact ==
  /\ IsPrefix(hist.delivered, hist.rxPushed)
  /\ \A j \in 1 .. RxHeld :
       chan.rx.fifo.buf[Slot(chan.rx.fifo, j)] = hist.rxPushed[Len(hist.delivered) + j]

C9_Pending(k) ==
  /\ reader.call = "read" /\ reader.pc \in {"r_check", "r_wait"}
  /\ hist.arrived = MaxRx
  /\ RxHeld = k /\ k < reader.len /\ k < size

\* the read has returned exactly the k bytes pushed last
C9_Returned(k) ==
  /\ reader.call = "read" /\ reader.pc = "idle"
  /\ Len(reader.out) = k /\ Len(hist.rxPushed) >= k
  /\ reader.out = LastN(hist.rxPushed, k)
  /\ RxHeld = 0

\* C9: timeout-driven wake.  If the bridge has pushed k >= 1 bytes, fewer
\* than max_len and than the capacity, and no more data arrives, a pending
\* blocking read eventually returns exactly those k bytes.
C9_TimeoutWake == \A k \in 1 .. MaxRx : C9_Pending(k) ~> C9_Returned(k)

\* a read that asked for two bytes has returned the single byte buffered
C9_Witness ==
  /\ C9_Returned(1)
  /\ reader.len >= 2 /\ size >= 2
  /\ hist.arrived = MaxRx

C12_WitnessRx ==
  /\ reader.pc = "rnb_test" /\ Len(reader.out) >= 1
  /\ RxHeld = 0 /\ hist.dropped >= 1

\* a step is an invocation of the Interrupt Bridge: no thread moved, and a
\* byte arrived or the transmit side changed
BridgeStep ==
  /\ writer' = writer /\ reader' = reader
  /\ \/ hist'.arrived > hist.arrived
     \/ hw' # hw
     \/ chan'.tx # chan.tx

\* the step advanced the write counter of the receive buffer
RxPushStep == chan'.rx.fifo.write # chan.rx.fifo.write

\* C13: receive side of the Interrupt Bridge.  An invocation that pushes at
\* least one byte into the receive buffer ends with the receive signal
\* raised and the timer running; an invocation that pushes none (nothing
\* pending, or the buffer full) leaves the receive signal and the timer as
\* they were.
C13_RxSignalOnPush ==
  [][/\ RxPushStep =>
          /\ BridgeStep
          /\ Len(hist'.rxPushed) > Len(hist.rxPushed)
          /\ chan'.rx.signal /\ chan'.rx.timer = RxDelay
     /\ (BridgeStep /\ ~RxPushStep) =>
          /\ hist'.rxPushed = hist.rxPushed
          /\ chan'.rx.signal = chan.rx.signal
          /\ chan'.rx.timer = chan.rx.timer]_vars

\* a reader is suspended with the signal raised and the timer running after
\* the bridge pushed two bytes; an earlier invocation found the buffer full
\* and dropped a byte
C13_Witness ==
  /\ reader.pc = "r_wait" /\ chan.rx.signal /\ chan.rx.timer > 0
  /\ Len(hist.rxPushed) >= 2 /\ hist.dropped >= 1

\* C14: transmit side of the Interrupt Bridge.  An invocation that pops and
\* leaves the transmit buffer without a byte ends with the transmit-ready
\* interrupt disabled and the transmit signal raised, and no invocation
\* ends with the interrupt enabled and no byte in the transmit buffer.  The
\* bytes in the buffer are counted from what was pushed and what reached the
\* hardware, not by fifo_empty.
C14_TxIdleWhenEmpty ==
  [][BridgeStep =>
       /\ (Len(hw'.out) > Len(hw.out) /\ TxHeld' = 0) =>
            (~hw'.tx_irq /\ chan'.tx.signal)
       /\ ~(hw'.tx_irq /\ TxHeld' = 0)]_vars

\* a writer is suspended, the bridge has popped the last byte of the
\* transmit buffer, disabled the interrupt and raised the signal
C14_Witness ==
  /\ writer.pc = "w_wait" /\ hist.drained
  /\ TxHeld = 0 /\ Len(hw.out) >= 2
  /\ ~hw.tx_irq /\ chan.tx.signal

\* the step is the expiry of the timer
ExpiryStep == chan.rx.timer > 0 /\ chan'.rx.timer = 0

\* C15: re-arming of the Timeout Monitor.  The channel has one timer, with
\* at most one expiry pending; an invocation of the bridge that pushes a
\* received byte restarts it with the full delay, also when it was running;
\* while it runs, the expiry lies exactly one delay after the most recent
\* push; and it expires only when a full delay has passed since that push.
C15_TimerRearmed ==
  [][/\ chan'.rx.timer \in 0 .. RxDelay
     /\ RxPushStep => (chan'.rx.timer = RxDelay /\ hist'.since = 0)
     /\ chan'.rx.timer > 0 => hist'.since + chan'.rx.timer = RxDelay
     /\ ExpiryStep => (~RxPushStep /\ hist'.since = RxDelay)]_vars

\* the timer has expired a full delay after a reception that came while it
\* was already running for an earlier one
C15_Witness ==
  /\ chan.rx.timer = 0 /\ hist.since = RxDelay /\ hist.rearmed
  /\ Len(hist.rxPushed) >= 2
  /\ chan.rx.signal /\ reader.pc = "r_wait"

(***************************************************************************)
(* Frame conditions of the ring-buffer calls (SpecFifo).                   *)
(***************************************************************************)
\* the steps of SpecFifo that are one successful fifo_push / fifo_pop, and
\* the fifo_peek steps
PushStep == op'.kind = "push" /\ pushed' # pushed

PopStep == op'.kind = "pop" /\ popped' # popped

PeekStep == op'.kind = "peek" /\ op'.ok /\ pushed' = pushed /\ popped' = popped

\* C16: frame conditions.  fifo_push advances write by one, stores the byte
\* in the slot at (old write mod capacity) and leaves read, the mask and
\* every other slot unchanged; fifo_pop advances read by one and leaves
\* write, the mask and every slot unchanged; fifo_peek (and with it
\* fifo_used, fifo_full, fifo_empty, which it and the assertions evaluate)
\* changes nothing; and a fifo_pop that follows a fifo_peek returns the byte
\* the fifo_peek returned.
C16_FrameConditions ==
  [][/\ PushStep =>
          /\ fifo'.write = (fifo.write + 1) % U16_MOD
          /\ fifo'.read = fifo.read
          /\ fifo'.capacity_mask = fifo.capacity_mask
          /\ fifo'.buf[fifo.write % size] = pushed'[Len(pushed')]
          /\ \A j \in DOMAIN fifo.buf :
               j # fifo.write % size => fifo'.buf[j] = fifo.buf[j]
     /\ PopStep =>
          /\ fifo'.read = (fifo.read + 1) % U16_MOD
          /\ fifo'.write = fifo.write
          /\ fifo'.capacity_mask = fifo.capacity_mask
          /\ fifo'.buf = fifo.buf
     /\ PeekStep => fifo' = fifo
     /\ (op.kind = "peek" /\ op.ok /\ PopStep) => op'.val = op.val
     /\ PeekStep => op'.val = pushed[Len(popped) + 1]]_vars

\* a byte was popped from a buffer of four slots whose write counter had
\* wrapped, and a byte pushed before is still unread in its slot
C16_Witness ==
  /\ op.kind = "pop" /\ op.ok /\ size >= 4
  /\ Held >= 1 /\ UnreadIntact
  /\ fifo.write < fifo.read

\* C17: a blocking read with max_len > 0 goes to wait only when the receive
\* buffer holds no byte, is suspended (waiting, the signal not raised) only
\* while it holds none, and returns a count in 1 .. max_len, never 0, also
\* after wakes that found the buffer empty.  The bytes held are counted from
\* what was pushed and delivered, not by fifo_empty.
C17_ReadNeverZero ==
  [][/\ (reader'.pc = "r_wait" /\ reader.pc # "r_wait") => RxHeld = 0
     /\ (reader'.pc = "r_wait" /\ ~chan'.rx.signal) => RxHeld' = 0
     /\ (reader'.call = "read" /\ reader'.pc = "idle") =>
          /\ Len(reader'.out) >= 1
          /\ Len(reader'.out) <= reader'.len
          /\ IsPrefix(hist'.delivered, hist'.rxPushed)]_vars

\* a read has returned a byte after two wakes, the first of which found the
\* buffer empty: an earlier read_nb had taken the bytes that raised the
\* signal and started the timer
C17_Witness ==
  /\ reader.call = "read" /\ reader.pc = "idle"
  /\ reader.wakes = 2 /\ Len(reader.out) >= 1
  /\ Len(hist.delivered) > Len(reader.out)

(***************************************************************************)
(* The ring buffer under preemption (SpecPreempt).                         *)
(***************************************************************************)
\* no call of the thread is under way
ThreadIdle == writer.pc = "idle" /\ reader.pc = "idle"

\* C18: with one producer and one consumer, and the interrupt handler free
\* to run between any two memory accesses of the thread's fifo_push or
\* fifo_pop, the bytes popped are the bytes pushed, in order, none lost,
\* none twice and none read from a slot before its byte is stored, and no
\* counter update is lost: once the thread's call is over, write has
\* advanced by the number of pushes and read by the number of pops.
C18_SpscSafeUnderPreemption ==
  op.kind = "build" =>
    /\ IsPrefix(popped, pushed)
    /\ ThreadIdle =>
         /\ (fifo.write - Len(pushed)) % U16_MOD \in StartCounters
         /\ (fifo.read - Len(popped)) % U16_MOD \in StartCounters
         /\ (fifo.write - Len(pushed)) % U16_MOD =
              (fifo.read - Len(popped)) % U16_MOD

\* the same, for a build that accesses the slot before it stores the index
C18_SlotFirstSafe == op.index_first \/ C18_SpscSafeUnderPreemption

(***************************************************************************)
(* Progress of the transmit side.                                          *)
(***************************************************************************)
\* the writer is inside a call of write_nb
InWriteNb ==
  writer.pc \in {"wnb_test", "wnb_push", "wnb_slot", "wnb_index", "wnb_irq"}

\* whenever the transmit buffer holds a byte and no write_nb is under way,
\* the transmit-ready interrupt is enabled
TxIrqCoversBuffer == (TxHeld > 0 /\ ~InWriteNb) => hw.tx_irq

\* the bytes the hardware got are the first bytes the buffer accepted
TxOutputIsPrefix == IsPrefix(hw.out, hist.txPushed)

\* the k-th byte the buffer accepted reaches the hardware
TxEveryByteSent ==
  \A k \in 1 .. MaxTx : (Len(hist.txPushed) >= k) ~> (Len(hw.out) >= k)

\* C19: transmit progress.  Whenever the transmit buffer is not empty and
\* no write_nb is under way the transmit-ready interrupt is enabled; with
\* the hardware ready again and again, every byte accepted by write or
\* write_nb is eventually written to the hardware; and the hardware output
\* is always a prefix of the accepted bytes, in order.
C19_TransmitProgress ==
  /\ []TxIrqCoversBuffer
  /\ TxEveryByteSent
  /\ []TxOutputIsPrefix

\* C20: no missed wakeup on transmit.  With the writer thread scheduled
\* whenever it can run and the bridge invoked whenever the transmit-ready
\* interrupt stays enabled, every blocking write that is under way
\* eventually returns, whatever the bridge does between the writer's test
\* of the buffer and its wait for the signal.
C20_WriteReturns ==
  (writer.call = "write" /\ writer.pc # "idle") ~>
    (writer.call = "write" /\ writer.pc = "idle" /\ writer.i = Len(writer.buf))

\* the writer found the buffer full and is about to wait with bytes left to
\* push; the bridge has meanwhile popped every byte and raised the signal
C20_Witness ==
  /\ writer.call = "write" /\ writer.pc = "wnb_irq"
  /\ writer.i < Len(writer.buf)
  /\ TxHeld = 0 /\ hist.drained
  /\ chan.tx.signal /\ ~hw.tx_irq

====
